---- MODULE Spec2Model ----
(***************************************************************************)
(* The per-room session engine of services/realtime/src/index.ts: the room *)
(* and session registries, the socket handlers and the answering timer.    *)
(*                                                                         *)
(* Left out, because no handler reads them to take a decision: the display *)
(* name and colour of a player, the prompt text and the round id string,   *)
(* the scoringEnabled and profanityFilterEnabled settings (filterProfanity *)
(* keeps the length of a text), the session:token message and the          *)
(* once-a-second timer:state tick.                                         *)
(***************************************************************************)
EXTENDS Integers, Sequences, FiniteSets, TLC

(* ------------------------------ bounds --------------------------------- *)
NumTokens == 3
NumSockets == 1
MaxRooms == 1
MaxRoster == 3
MaxRounds == 4
GuessRoster == 4
ResumeSockets == 2
MaxNoise == 1
MaxOrderLen == 3
StartRoster == 11
LongOrderLen == 4
MaxCard == 4

(* ------------------------- program constants --------------------------- *)
DeckSize == 10
\* A faulty variant of the lower limit of round:start
MinPlayersOffByOne == 3 - 1
MinPlayers == 3
MaxRoundPlayers == 10
DefaultMaxPlayers == 10
DefaultTimerSec == 90
MaxAnswerLen == 200

Tokens == 1..NumTokens
Sockets == 1..NumSockets
Codes == 1..MaxRooms
Null == 0
Undefined == -1
\* The null of a JSON payload, which `??` reads as a missing value
JsonNull == -2

(* ------------------------------- state --------------------------------- *)
VARIABLES rooms, sessions, sock, timers, created, issued, out, noise
vars == <<rooms, sessions, sock, timers, created, issued, out, noise>>

NoRoom == [phase |-> "none"]
NoRound == [index |-> Undefined]
NoSession == [roomCode |-> Null, expired |-> FALSE]
\* A pending setTimeout of round:start: the connection whose closure it runs
\* in, the duration, and the index of the round whose start armed it
NoTimer == [armed |-> FALSE, by |-> Null, code |-> Null, dur |-> Null, index |-> Undefined]
Unbound == [playerId |-> Null, roomCode |-> Null]

Registered(c) == c \in Codes /\ rooms[c].phase # "none"
HasRound(room) == room.round.index # Undefined

(* ----------------------------- sequences ------------------------------- *)
Range(s) == {s[i] : i \in 1..Len(s)}
Min(a, b) == IF a < b THEN a ELSE b
RemoveAt(s, i) == SubSeq(s, 1, i - 1) \o SubSeq(s, i + 1, Len(s))
Ids(players) == [i \in 1..Len(players) |-> players[i].id]
\* A faulty variant: the first position when none matches
FindIndexOrFirst(players, id) ==
  IF \E i \in 1..Len(players) : players[i].id = id
  THEN CHOOSE i \in 1..Len(players) :
         /\ players[i].id = id
         /\ \A j \in 1..(i - 1) : players[j].id # id
  ELSE Min(1, Len(players))
\* Array.prototype.findIndex: the first position that matches, 0 when none does
FindIndex(players, id) ==
  IF \E i \in 1..Len(players) : players[i].id = id
  THEN CHOOSE i \in 1..Len(players) :
         /\ players[i].id = id
         /\ \A j \in 1..(i - 1) : players[j].id # id
  ELSE 0
ConnectedPlayers(players) == SelectSeq(players, LAMBDA p : p.connected)

\* Array.prototype.sort with the comparator (a, b) => key(a) - key(b): stable,
\* so elements with equal keys keep their order (insertion sort). keys[i] is
\* the key of s[i].
RECURSIVE InsertKeyed(_, _)
InsertKeyed(x, sorted) ==
  IF sorted = << >> THEN <<x>>
  ELSE IF x.key < Head(sorted).key THEN <<x>> \o sorted
  ELSE <<Head(sorted)>> \o InsertKeyed(x, Tail(sorted))
RECURSIVE SortKeyed(_)
SortKeyed(s) ==
  IF s = << >> THEN << >>
  ELSE InsertKeyed(s[Len(s)], SortKeyed(SubSeq(s, 1, Len(s) - 1)))
SortBy(s, keys) ==
  LET keyed == [i \in 1..Len(s) |-> [key |-> keys[i], val |-> s[i]]]
      sorted == SortKeyed(keyed)
  IN  [i \in 1..Len(s) |-> sorted[i].val]

\* The sequences over S of length at most n, and those without a repeat
SeqsUpTo(S, n) == UNION {[1..k -> S] : k \in 0..n}
Injective(f) == \A i, j \in DOMAIN f : f[i] = f[j] => i = j

(* ------------------------------ events --------------------------------- *)
\* One emitted event. to = "room" broadcasts to the socket.io room `code`,
\* to = "sock" sends to the one socket `code`.
Event(type, to, code, data) == [type |-> type, to |-> to, code |-> code, data |-> data]
Error(s, errCode) == Event("error", "sock", s, errCode)

\* A faulty variant: the numbers are blanked until the reveal only
publicRoomStateRevealsNumbers(room) ==
  [hostId |-> room.hostId,
   players |-> room.players,
   settings |-> room.settings,
   phase |-> room.phase,
   stats |-> room.stats,
   currentRound |->
     IF HasRound(room)
     THEN [room.round EXCEPT
             !.numbers = IF room.phase = "reveal" THEN room.round.numbers ELSE << >>,
             !.answers = IF room.phase \in {"guessing", "reveal"}
                         THEN room.round.answers ELSE << >>]
     ELSE NoRound]
\* A faulty variant: the answers are passed on in every phase
publicRoomStateShowsAnswers(room) ==
  [hostId |-> room.hostId,
   players |-> room.players,
   settings |-> room.settings,
   phase |-> room.phase,
   stats |-> room.stats,
   currentRound |->
     IF HasRound(room) THEN [room.round EXCEPT !.numbers = << >>] ELSE NoRound]
publicRoomState(room) ==
  [hostId |-> room.hostId,
   players |-> room.players,
   settings |-> room.settings,
   phase |-> room.phase,
   stats |-> room.stats,
   currentRound |->
     IF HasRound(room)
     THEN [room.round EXCEPT
             !.numbers = << >>,
             !.answers = IF room.phase \in {"guessing", "reveal"}
                         THEN room.round.answers ELSE << >>]
     ELSE NoRound]

\* emitState of the connection s, evaluated on the registry rs: the snapshot
\* of the room the connection's roomCode names, if it is still registered.
emitState(code, rs) ==
  IF code # Null /\ rs[code].phase # "none"
  THEN <<Event("room:state", "room", code, publicRoomState(rs[code]))>>
  ELSE << >>

seatIndexForNewPlayer(players) ==
  LET seats == {players[i].seat : i \in 1..Len(players)}
  IN  IF \E i \in 0..Len(players) : i \notin seats
      THEN CHOOSE i \in 0..Len(players) :
             i \notin seats /\ \A j \in 0..(i - 1) : j \in seats
      ELSE Len(players)

NewPlayer(t, seat) ==
  [id |-> t, seat |-> seat, connected |-> TRUE, lastGuessedRound |-> Undefined]

\* getOrIssueToken. Tokens are opaque strings, so they are named in the order
\* of their first use: 1..issued are the tokens some client has presented or
\* been issued so far, and issued + 1 is the next one, either minted by
\* nanoid(21) or a string of 8 or more characters the client made up.
KnownTokens == 1..Min(issued + 1, NumTokens)
getOrIssueToken(t) == IF t > issued THEN t ELSE issued

(* ------------------------------- Init ---------------------------------- *)
Init ==
  /\ rooms = [c \in Codes |-> NoRoom]
  /\ sessions = [t \in Tokens |-> NoSession]
  /\ sock = [s \in Sockets |-> Unbound]
  /\ timers = [c \in Codes |-> NoTimer]
  /\ created = 0
  /\ issued = 0
  /\ noise = 0
  /\ out = << >>

(* --------------------------- room:create ------------------------------- *)
RoomCreate(s, t) ==
  /\ created < MaxRooms
  /\ LET code == created + 1
         room == [hostId |-> t,
                  players |-> <<NewPlayer(t, 0)>>,
                  settings |-> [maxPlayers |-> DefaultMaxPlayers,
                                roundTimerSec |-> DefaultTimerSec],
                  phase |-> "lobby",
                  round |-> NoRound,
                  stats |-> [wins |-> 0, losses |-> 0],
                  sockets |-> [u \in Tokens |-> IF u = t THEN s ELSE Null],
                  roundCounter |-> 0]
         rs == [rooms EXCEPT ![code] = room]
     IN  /\ rooms' = rs
         /\ sessions' = [sessions EXCEPT ![t] = [roomCode |-> code, expired |-> FALSE]]
         /\ sock' = [sock EXCEPT ![s] = [playerId |-> t, roomCode |-> code]]
         /\ created' = code
         /\ out' = emitState(code, rs)
  /\ issued' = getOrIssueToken(t)
  /\ UNCHANGED timers

\* A handler that returns early: nothing but the emitted events changes.
Reply(events) ==
  /\ out' = events
  /\ UNCHANGED <<rooms, sessions, sock, timers, created, issued>>

\* rateCheck: the verdict depends on the wall clock and on the per-address
\* counter, both outside the rooms; a refused command changes nothing.
RateLimited(s) == Reply(<<Error(s, "RATE_LIMITED")>>)

(* ---------------------------- room:join -------------------------------- *)
\* A faulty variant: the room takes one player more than maxPlayers
RoomIsFullOffByOne(room) == Len(room.players) > room.settings.maxPlayers
\* room.players.length >= room.settings.maxPlayers
RoomIsFull(room) == Len(room.players) >= room.settings.maxPlayers

RoomJoin(s, code, t) ==
  IF ~Registered(code)
  THEN Reply(<<Error(s, "ROOM_NOT_FOUND")>>)
  ELSE IF RoomIsFull(rooms[code])
  THEN Reply(<<Error(s, "ROOM_FULL")>>)
  ELSE
    /\ Len(rooms[code].players) < MaxRoster
    /\ LET room == rooms[code]
           player == NewPlayer(t, seatIndexForNewPlayer(room.players))
           rs == [rooms EXCEPT ![code] =
                    [room EXCEPT !.players = Append(room.players, player),
                                 !.sockets = [room.sockets EXCEPT ![t] = s]]]
       IN  /\ rooms' = rs
           /\ sessions' = [sessions EXCEPT ![t] = [roomCode |-> code, expired |-> FALSE]]
           /\ sock' = [sock EXCEPT ![s] = [playerId |-> t, roomCode |-> code]]
           /\ out' = emitState(code, rs)
    /\ issued' = getOrIssueToken(t)
    /\ UNCHANGED <<timers, created>>

(* --------------------------- session:hello ----------------------------- *)
\* A faulty variant: the socket is recorded and the flag is left as it was
AttachKeepsFlag(room, i, t, s) ==
  [room EXCEPT !.sockets = [room.sockets EXCEPT ![t] = s]]
\* room.sockets.set(p.id, socket.id); p.connected = true
Attach(room, i, t, s) ==
  [room EXCEPT !.players[i].connected = TRUE,
               !.sockets = [room.sockets EXCEPT ![t] = s]]

SessionHello(s, t) ==
  LET ses == sessions[t] IN
  IF ses.roomCode = Null
  THEN Reply(<< >>)
  ELSE IF ses.expired
  THEN /\ sessions' = [sessions EXCEPT ![t] = NoSession]
       /\ out' = << >>
       /\ UNCHANGED <<rooms, sock, timers, created, issued>>
  ELSE IF ~Registered(ses.roomCode) \/ FindIndex(rooms[ses.roomCode].players, t) = 0
  THEN Reply(<< >>)
  ELSE
    LET code == ses.roomCode
        room == rooms[code]
        i == FindIndex(room.players, t)
        rs == [rooms EXCEPT ![code] = Attach(room, i, t, s)]
    IN  /\ rooms' = rs
        /\ sock' = [sock EXCEPT ![s] = [playerId |-> t, roomCode |-> code]]
        /\ out' = emitState(code, rs) \o
                  (IF HasRound(room) /\ t \in DOMAIN room.round.numbers
                   THEN <<Event("deal:self", "sock", s, room.round.numbers[t])>>
                   ELSE << >>)
        /\ UNCHANGED <<sessions, timers, created, issued>>

(* ---------------------------- the host check --------------------------- *)
\* A faulty variant: every sender passes for the host
NotHostNever(b) == FALSE
\* playerId !== room.hostId, on the binding b of a connection
NotHost(b) == b.playerId # rooms[b.roomCode].hostId

(* ---------------------------- room:leave ------------------------------- *)
\* A faulty variant: no roster counts as empty
IsEmptyNever(players) == FALSE
\* room.players.length === 0
IsEmpty(players) == Len(players) = 0
\* A faulty variant: the host id is left as it was
ReassignHostNever(room, leaver, players) == room.hostId
\* if (room.hostId === playerId) room.hostId = room.players[0]?.id ?? room.hostId
ReassignHost(room, leaver, players) ==
  IF room.hostId = leaver /\ Len(players) > 0 THEN players[1].id ELSE room.hostId

RoomLeave(s) ==
  LET b == sock[s] IN
  IF b.roomCode = Null \/ b.playerId = Null \/ ~Registered(b.roomCode)
  THEN Reply(<< >>)
  ELSE
    LET code == b.roomCode
        room == rooms[code]
        index == FindIndex(room.players, b.playerId)
        players == IF index # 0 THEN RemoveAt(room.players, index) ELSE room.players
        hostId == ReassignHost(room, b.playerId, players)
        left == [room EXCEPT !.players = players,
                             !.sockets = [room.sockets EXCEPT ![b.playerId] = Null],
                             !.hostId = hostId]
        rs == [rooms EXCEPT ![code] = IF IsEmpty(players) THEN NoRoom ELSE left]
    IN  /\ rooms' = rs
        /\ out' = emitState(code, rs)
        /\ sock' = [sock EXCEPT ![s] = Unbound]
        /\ UNCHANGED <<sessions, timers, created, issued>>

(* ---------------------------- disconnect ------------------------------- *)
\* The connection is gone afterwards and its slot stands for a new connection:
\* the socket id a room still holds for it reaches nobody (Closed), and a
\* timer it armed keeps the closure over its roomCode as it is now.
Closed(rs, s) ==
  [c \in Codes |->
     IF rs[c].phase = "none" THEN rs[c]
     ELSE [rs[c] EXCEPT !.sockets =
             [u \in DOMAIN rs[c].sockets |->
                IF rs[c].sockets[u] = s THEN Null ELSE rs[c].sockets[u]]]]
\* A faulty variant: the player is also struck from the round in progress
DetachDropsParticipant(room, i) ==
  IF HasRound(room)
  THEN [room EXCEPT !.players[i].connected = FALSE,
                    !.round.participants =
                       SelectSeq(room.round.participants,
                                 LAMBDA t : t # room.players[i].id)]
  ELSE [room EXCEPT !.players[i].connected = FALSE]
\* if (p) p.connected = false
Detach(room, i) == [room EXCEPT !.players[i].connected = FALSE]

Disconnect(s) ==
  LET b == sock[s]
      orphaned == [c \in Codes |->
                     IF timers[c].armed /\ timers[c].by = s
                     THEN [timers[c] EXCEPT !.by = Null, !.code = b.roomCode]
                     ELSE timers[c]]
  IN
  /\ sock' = [sock EXCEPT ![s] = Unbound]
  /\ timers' = orphaned
  /\ UNCHANGED <<sessions, created, issued>>
  /\ IF b.roomCode = Null \/ b.playerId = Null \/ ~Registered(b.roomCode)
     THEN /\ out' = << >>
          /\ rooms' = Closed(rooms, s)
     ELSE LET code == b.roomCode
              room == rooms[code]
              i == FindIndex(room.players, b.playerId)
              rs == IF i = 0 THEN rooms
                    ELSE [rooms EXCEPT ![code] = Detach(room, i)]
          IN  /\ rooms' = Closed(rs, s)
              /\ out' = emitState(code, rs)

(* ----------------------------- room:kick ------------------------------- *)
\* A faulty variant: the kick drops the round and leaves the phase as it was
KickAbortKeepsPhase(room) ==
  IF HasRound(room) THEN [room EXCEPT !.round = NoRound] ELSE room
\* if (room.currentRound) { room.currentRound = undefined; room.phase = 'lobby' }
KickAbort(room) ==
  IF HasRound(room) THEN [room EXCEPT !.round = NoRound, !.phase = "lobby"] ELSE room

RoomKick(s, targetId) ==
  LET b == sock[s] IN
  IF b.roomCode = Null \/ b.playerId = Null \/ ~Registered(b.roomCode)
  THEN Reply(<< >>)
  ELSE IF NotHost(b)
  THEN Reply(<<Error(s, "NOT_HOST")>>)
  ELSE IF targetId = rooms[b.roomCode].hostId
  THEN Reply(<<Error(s, "CANNOT_KICK_HOST")>>)
  ELSE IF FindIndex(rooms[b.roomCode].players, targetId) = 0
  THEN Reply(<< >>)
  ELSE
    LET code == b.roomCode
        room == rooms[code]
        idx == FindIndex(room.players, targetId)
        kicked == [room EXCEPT !.players = RemoveAt(room.players, idx),
                               !.sockets = [room.sockets EXCEPT ![targetId] = Null]]
        rs == [rooms EXCEPT ![code] = KickAbort(kicked)]
    IN  /\ rooms' = rs
        /\ out' = emitState(code, rs)
        /\ UNCHANGED <<sessions, sock, timers, created, issued>>

(* -------------------------- settings:update ---------------------------- *)
\* patch: a partial RoomSettings; Undefined marks a key the patch leaves out
SettingsUpdate(s, patch) ==
  LET b == sock[s] IN
  IF b.roomCode = Null \/ b.playerId = Null \/ ~Registered(b.roomCode)
  THEN Reply(<< >>)
  ELSE IF NotHost(b)
  THEN Reply(<<Error(s, "NOT_HOST")>>)
  ELSE
    LET code == b.roomCode
        old == rooms[code].settings
        rs == [rooms EXCEPT ![code].settings =
                 [maxPlayers |-> IF patch.maxPlayers = Undefined
                                 THEN old.maxPlayers ELSE patch.maxPlayers,
                  roundTimerSec |-> IF patch.roundTimerSec = Undefined
                                    THEN old.roundTimerSec ELSE patch.roundTimerSec]]
    IN  /\ rooms' = rs
        /\ out' = emitState(code, rs)
        /\ UNCHANGED <<sessions, sock, timers, created, issued>>

(* --------------------------- chooseGuesser ----------------------------- *)
\* A faulty variant: the never-guessed players are not filtered by connected
chooseGuesserAnyone(room) ==
  LET never == SelectSeq(room.players, LAMBDA p : p.lastGuessedRound = Undefined)
      guessed == SelectSeq(room.players,
                   LAMBDA p : p.connected /\ p.lastGuessedRound # Undefined)
      sorted == SortBy(guessed, [i \in 1..Len(guessed) |-> guessed[i].lastGuessedRound])
  IN  IF Len(never) > 0 THEN {never[i].id : i \in 1..Len(never)}
      ELSE IF Len(sorted) > 0 THEN {sorted[1].id}
      ELSE {room.players[1].id}
\* A faulty variant: the comparator turned round, so the most recent guesser
\* comes first
chooseGuesserMostRecent(room) ==
  LET never == SelectSeq(room.players,
                 LAMBDA p : p.connected /\ p.lastGuessedRound = Undefined)
      guessed == SelectSeq(room.players,
                   LAMBDA p : p.connected /\ p.lastGuessedRound # Undefined)
      sorted == SortBy(guessed, [i \in 1..Len(guessed) |-> 0 - guessed[i].lastGuessedRound])
  IN  IF Len(never) > 0 THEN {never[i].id : i \in 1..Len(never)}
      ELSE IF Len(sorted) > 0 THEN {sorted[1].id}
      ELSE {room.players[1].id}
\* A faulty variant: the players who have guessed are not sorted, the first of
\* them in the roster is taken
chooseGuesserUnsorted(room) ==
  LET never == SelectSeq(room.players,
                 LAMBDA p : p.connected /\ p.lastGuessedRound = Undefined)
      guessed == SelectSeq(room.players,
                   LAMBDA p : p.connected /\ p.lastGuessedRound # Undefined)
  IN  IF Len(never) > 0 THEN {never[i].id : i \in 1..Len(never)}
      ELSE IF Len(guessed) > 0 THEN {guessed[1].id}
      ELSE {room.players[1].id}
\* The ids chooseGuesser can return: any never-guessed connected player (the
\* index is random), else the first of the connected players in ascending
\* lastGuessedRound, else the first player of the roster.
chooseGuesser(room) ==
  LET never == SelectSeq(room.players,
                 LAMBDA p : p.connected /\ p.lastGuessedRound = Undefined)
      guessed == SelectSeq(room.players,
                   LAMBDA p : p.connected /\ p.lastGuessedRound # Undefined)
      sorted == SortBy(guessed, [i \in 1..Len(guessed) |-> guessed[i].lastGuessedRound])
  IN  IF Len(never) > 0 THEN {never[i].id : i \in 1..Len(never)}
      ELSE IF Len(sorted) > 0 THEN {sorted[1].id}
      ELSE {room.players[1].id}

(* ---------------------------- dealNumbers ------------------------------ *)
\* The deck 1..10 after the shuffle, cut to the first n cards: n cards
\* without a repeat.
Deck == 1..DeckSize
DeckPrefixes(n) == {d \in [1..n -> Deck] : Injective(d)}
\* The two shuffles round:start draws from here: the one that leaves the deck
\* as it was, and the one that reverses it
SortedPrefixes(n) ==
  {[i \in 1..n |-> i], [i \in 1..n |-> DeckSize + 1 - i]}
\* players.forEach((p, i) => numbers[p.id] = deck[i]): a later entry with the
\* same id overwrites the earlier one
dealNumbers(players, deck) ==
  [t \in Range(Ids(players)) |->
     deck[CHOOSE i \in 1..Len(players) :
            /\ players[i].id = t
            /\ \A j \in (i + 1)..Len(players) : players[j].id # t]]

(* ---------------------------- round:start ------------------------------ *)
\* The preview a room gets on entering guessing: the roster entries whose id
\* is a participant, by ascending seat
BySeat(room) ==
  LET seated == SelectSeq(room.players, LAMBDA p : p.id \in Range(room.round.participants))
  IN  Ids(SortBy(seated, [i \in 1..Len(seated) |-> seated[i].seat]))

\* const dur = room.settings.roundTimerSec ?? 90
AnswerDuration(settings) ==
  IF settings.roundTimerSec \in {JsonNull, Undefined}
  THEN DefaultTimerSec ELSE settings.roundTimerSec
\* A faulty variant: a deadline that is still pending is left to run and the
\* new one is lost
ArmTimerKeepsPending(pending, timer) == IF pending.armed THEN pending ELSE timer
\* if (room.timers.answering) clearTimeout(room.timers.answering);
\* room.timers.answering = setTimeout(...)
ArmTimer(pending, timer) == timer
\* A faulty variant: the counter is left as it was
NextRoundCounterStuck(room) == room.roundCounter
\* room.roundCounter += 1
NextRoundCounter(room) == room.roundCounter + 1

RoundStart(s) ==
  LET b == sock[s] IN
  IF b.roomCode = Null \/ b.playerId = Null \/ ~Registered(b.roomCode)
  THEN Reply(<< >>)
  ELSE IF NotHost(b)
  THEN Reply(<<Error(s, "NOT_HOST")>>)
  ELSE IF Len(ConnectedPlayers(rooms[b.roomCode].players)) < MinPlayers
  THEN Reply(<<Error(s, "NOT_ENOUGH_PLAYERS")>>)
  ELSE IF Len(ConnectedPlayers(rooms[b.roomCode].players)) > MaxRoundPlayers
  THEN Reply(<<Error(s, "TOO_MANY_PLAYERS")>>)
  ELSE
    LET code == b.roomCode
        room == rooms[code]
        activePlayers == ConnectedPlayers(room.players)
    IN
    /\ room.roundCounter < MaxRounds
    /\ \E guesserId \in chooseGuesser(room), deck \in SortedPrefixes(Len(activePlayers)) :
         LET numbers == dealNumbers(activePlayers, deck)
             round == [index |-> room.roundCounter,
                       guesserId |-> guesserId,
                       numbers |-> numbers,
                       answers |-> [t \in Range(Ids(activePlayers)) |-> << >>],
                       participants |-> Ids(activePlayers),
                       orderingGuess |-> << >>,
                       orderingPreview |-> << >>]
             rs == [rooms EXCEPT ![code] =
                      [room EXCEPT !.round = round,
                                   !.phase = "answering",
                                   !.roundCounter = NextRoundCounter(room)]]
             deals == [i \in 1..Len(activePlayers) |->
                         Event("deal:self", "sock", room.sockets[activePlayers[i].id],
                               numbers[activePlayers[i].id])]
         IN  /\ rooms' = rs
             /\ timers' = [timers EXCEPT ![code] =
                             ArmTimer(timers[code],
                                      [armed |-> TRUE, by |-> s, code |-> Null,
                                       dur |-> AnswerDuration(room.settings),
                                       index |-> room.roundCounter])]
             /\ out' = SelectSeq(deals, LAMBDA e : e.code # Null)
                       \o <<Event("round:started", "room", code, guesserId)>>
                       \o emitState(code, rs)
    /\ UNCHANGED <<sessions, sock, created, issued>>

(* ------------------------ the answering timeout ------------------------ *)
\* The setTimeout callback of round:start for the room with code c. Its
\* emitState is the one of the connection that started the round.
TimerIsStale(c) ==
  ~Registered(c) \/ rooms[c].phase # "answering" \/ ~HasRound(rooms[c])
\* A faulty variant: the deadline never moves the room
TimerAdvancesNever(r) == FALSE
\* A faulty variant: the comparison turned round
TimerAdvancesFlipped(r) ==
  Cardinality({t \in DOMAIN r.round.answers : r.round.answers[t] # << >>})
    >= Len(r.round.participants)
TimerAdvances(r) ==
  Cardinality({t \in DOMAIN r.round.answers : r.round.answers[t] # << >>})
    < Len(r.round.participants)
TimerEnterGuessing(r) ==
  [r EXCEPT !.phase = "guessing", !.round.orderingPreview = BySeat(r)]

TimerFires(c) ==
  /\ timers[c].armed
  /\ timers' = [timers EXCEPT ![c] = NoTimer]
  /\ UNCHANGED <<sessions, sock, created, issued>>
  /\ IF TimerIsStale(c)
     THEN /\ out' = << >>
          /\ UNCHANGED rooms
     ELSE
       LET r == rooms[c]
           bySeat == BySeat(r)
           rs == [rooms EXCEPT ![c] = TimerEnterGuessing(r)]
           emitCode == IF timers[c].by # Null THEN sock[timers[c].by].roomCode
                       ELSE timers[c].code
       IN  IF TimerAdvances(r)
           THEN \E after \in {rs} :
                  /\ rooms' = after
                  /\ out' = <<Event("guesser:needed", "room", c, r.round.guesserId),
                              Event("ordering:state", "room", c, bySeat)>>
                            \o emitState(emitCode, after)
           ELSE /\ out' = << >>
                /\ UNCHANGED rooms

(* --------------------------- answer:submit ----------------------------- *)
\* String(text ?? '').trim().slice(0, 200), on texts as sequences of characters
RECURSIVE TrimStart(_)
TrimStart(text) ==
  IF text # << >> /\ Head(text) = " " THEN TrimStart(Tail(text)) ELSE text
RECURSIVE TrimEnd(_)
TrimEnd(text) ==
  IF text # << >> /\ text[Len(text)] = " "
  THEN TrimEnd(SubSeq(text, 1, Len(text) - 1)) ELSE text
Clean(text) ==
  LET trimmed == TrimEnd(TrimStart(text))
  IN  SubSeq(trimmed, 1, Min(Len(trimmed), MaxAnswerLen))

AllAnswered(round) ==
  Cardinality({t \in DOMAIN round.answers : round.answers[t] # << >>})
    = Len(round.participants)
\* A faulty variant: the preview is set and the phase is left as it was
AnswerEnterKeepsPhase(room) ==
  [room EXCEPT !.round.orderingPreview = BySeat(room)]
AnswerEnterGuessing(room) ==
  [room EXCEPT !.phase = "guessing", !.round.orderingPreview = BySeat(room)]

AnswerSubmit(s, text) ==
  LET b == sock[s] IN
  IF \/ b.roomCode = Null \/ b.playerId = Null \/ ~Registered(b.roomCode)
     \/ rooms[b.roomCode].phase # "answering" \/ ~HasRound(rooms[b.roomCode])
     \/ b.playerId \notin Range(rooms[b.roomCode].round.participants)
  THEN Reply(<< >>)
  ELSE
    LET code == b.roomCode
        room == rooms[code]
        answers == [room.round.answers EXCEPT ![b.playerId] = Clean(text)]
        answeredIds == {t \in DOMAIN answers : answers[t] # << >>}
        answered == [room EXCEPT !.round.answers = answers]
        bySeat == BySeat(answered)
        rs == [rooms EXCEPT ![code] =
                 IF AllAnswered(answered.round) THEN AnswerEnterGuessing(answered)
                 ELSE answered]
    IN  /\ rooms' = rs
        /\ IF AllAnswered(answered.round)
           THEN /\ timers' = [timers EXCEPT ![code] = NoTimer]
                /\ out' = <<Event("answer:state", "room", code, answeredIds),
                            Event("guesser:needed", "room", code, room.round.guesserId),
                            Event("ordering:state", "room", code, bySeat)>>
                          \o emitState(code, rs)
           ELSE /\ out' = <<Event("answer:state", "room", code, answeredIds)>>
                /\ UNCHANGED timers
        /\ UNCHANGED <<sessions, sock, created, issued>>

(* --------------------------- guesser:order ----------------------------- *)
\* new Set(ordering) against new Set(round.participants)
OrderingRejected(ordering, participants) ==
  \/ Cardinality(Range(ordering)) # Cardinality(Range(participants))
  \/ \E i \in 1..Len(participants) : participants[i] \notin Range(ordering)

\* A faulty variant: the comparator turned round, numbers[b] - numbers[a]
trueOrderDescending(round) ==
  SortBy(round.participants,
         [i \in 1..Len(round.participants) |-> 0 - round.numbers[round.participants[i]]])
trueOrderOf(round) ==
  SortBy(round.participants,
         [i \in 1..Len(round.participants) |-> round.numbers[round.participants[i]]])

isWinOf(orderingGuess, trueOrder) ==
  /\ Len(orderingGuess) = Len(trueOrder)
  /\ \A i \in 1..Len(orderingGuess) : orderingGuess[i] = trueOrder[i]

\* A faulty variant: the sender is compared with the host
IsHostPlayer(playerId, room) == playerId = room.hostId
IsGuesser(playerId, room) == playerId = room.round.guesserId

\* A faulty variant: the round is recorded on every player of the roster
RecordGuessOnAll(room, g, index) ==
  [room EXCEPT !.players = [i \in 1..Len(room.players) |->
                              [room.players[i] EXCEPT !.lastGuessedRound = index]]]
\* const g = room.players.find(...); if (g) g.lastGuessedRound = round.index
RecordGuess(room, g, index) ==
  IF g # 0 THEN [room EXCEPT !.players[g].lastGuessedRound = index] ELSE room

GuesserOrder(s, ordering) ==
  LET b == sock[s] IN
  IF \/ b.roomCode = Null \/ b.playerId = Null \/ ~Registered(b.roomCode)
     \/ rooms[b.roomCode].phase # "guessing" \/ ~HasRound(rooms[b.roomCode])
  THEN Reply(<< >>)
  ELSE IF ~IsGuesser(b.playerId, rooms[b.roomCode])
  THEN Reply(<<Error(s, "NOT_GUESSER")>>)
  ELSE IF OrderingRejected(ordering, rooms[b.roomCode].round.participants)
  THEN Reply(<<Error(s, "INVALID_ORDERING")>>)
  ELSE
    LET code == b.roomCode
        room == rooms[code]
        round == room.round
        trueOrder == trueOrderOf(round)
        isWin == isWinOf(ordering, trueOrder)
        revealed == [room EXCEPT
                       !.round.orderingGuess = ordering,
                       !.phase = "reveal",
                       !.stats = IF isWin
                                 THEN [room.stats EXCEPT !.wins = room.stats.wins + 1]
                                 ELSE [room.stats EXCEPT !.losses = room.stats.losses + 1]]
        g == FindIndex(room.players, round.guesserId)
        rs == [rooms EXCEPT ![code] = revealed]
    IN  /\ rooms' = [rooms EXCEPT ![code] = RecordGuess(revealed, g, round.index)]
        /\ timers' = [timers EXCEPT ![code] = NoTimer]
        /\ out' = <<Event("round:result", "room", code,
                          [trueOrder |-> trueOrder, numbers |-> round.numbers,
                           submitted |-> ordering, isWin |-> isWin])>>
                  \o emitState(code, rs)
        /\ UNCHANGED <<sessions, sock, created, issued>>

(* -------------------------- ordering:preview --------------------------- *)
OrderingPreview(s, ordering) ==
  LET b == sock[s] IN
  IF \/ b.roomCode = Null \/ b.playerId = Null \/ ~Registered(b.roomCode)
     \/ rooms[b.roomCode].phase # "guessing" \/ ~HasRound(rooms[b.roomCode])
     \/ ~IsGuesser(b.playerId, rooms[b.roomCode])
     \/ OrderingRejected(ordering, rooms[b.roomCode].round.participants)
  THEN Reply(<< >>)
  ELSE
    /\ rooms' = [rooms EXCEPT ![b.roomCode].round.orderingPreview = ordering]
    /\ out' = <<Event("ordering:state", "room", b.roomCode, ordering)>>
    /\ UNCHANGED <<sessions, sock, timers, created, issued>>

(* -------------------------- room:shuffleSeats -------------------------- *)
\* perm[i] is the place the shuffle gives the i-th roster entry, counted from 1
ShuffleSeats(s, perm) ==
  LET b == sock[s] IN
  IF b.roomCode = Null \/ b.playerId = Null \/ ~Registered(b.roomCode)
  THEN Reply(<< >>)
  ELSE IF NotHost(b)
  THEN Reply(<<Error(s, "NOT_HOST")>>)
  ELSE
    LET code == b.roomCode
        room == rooms[code]
        rs == [rooms EXCEPT ![code].players =
                 [i \in 1..Len(room.players) |->
                    [room.players[i] EXCEPT !.seat = perm[i] - 1]]]
    IN  /\ Len(perm) = Len(room.players)
        /\ rooms' = rs
        /\ out' = emitState(code, rs)
        /\ UNCHANGED <<sessions, sock, timers, created, issued>>

(* ------------------------ round:end, round:next ------------------------ *)
RoundEnd(s) ==
  LET b == sock[s] IN
  IF b.roomCode = Null \/ b.playerId = Null \/ ~Registered(b.roomCode)
  THEN Reply(<< >>)
  ELSE IF NotHost(b)
  THEN Reply(<<Error(s, "NOT_HOST")>>)
  ELSE
    LET code == b.roomCode
        rs == [rooms EXCEPT ![code] =
                 [rooms[code] EXCEPT !.round = NoRound, !.phase = "lobby"]]
    IN  /\ rooms' = rs
        /\ timers' = [timers EXCEPT ![code] = NoTimer]
        /\ out' = emitState(code, rs)
        /\ UNCHANGED <<sessions, sock, created, issued>>

\* A faulty variant: the advance is taken in every phase
NotInRevealNever(room) == FALSE
\* if (room.phase !== 'reveal') return
NotInReveal(room) == room.phase # "reveal"

RoundNext(s) ==
  LET b == sock[s] IN
  IF b.roomCode = Null \/ b.playerId = Null \/ ~Registered(b.roomCode)
  THEN Reply(<< >>)
  ELSE IF NotHost(b)
  THEN Reply(<<Error(s, "NOT_HOST")>>)
  ELSE IF NotInReveal(rooms[b.roomCode])
  THEN Reply(<< >>)
  ELSE
    LET code == b.roomCode
        rs == [rooms EXCEPT ![code] =
                 [rooms[code] EXCEPT !.round = NoRound, !.phase = "lobby"]]
    IN  /\ rooms' = rs
        /\ out' = emitState(code, rs)
        /\ UNCHANGED <<sessions, sock, timers, created, issued>>

(* ------------------------- time and the sweep -------------------------- *)
\* More than TOKEN_TTL_MS has passed since the session of t was issued.
TokenExpires(t) ==
  /\ sessions[t].roomCode # Null
  /\ ~sessions[t].expired
  /\ sessions' = [sessions EXCEPT ![t].expired = TRUE]
  /\ out' = << >>
  /\ UNCHANGED <<rooms, sock, timers, created, issued>>

Sweep ==
  /\ sessions' = [t \in Tokens |-> IF sessions[t].expired THEN NoSession ELSE sessions[t]]
  /\ rooms' = [c \in Codes |->
                 IF Registered(c) /\ IsEmpty(rooms[c].players) THEN NoRoom ELSE rooms[c]]
  /\ out' = << >>
  /\ UNCHANGED <<sock, timers, created, issued>>

SettingsPatches ==
  {[maxPlayers |-> 2, roundTimerSec |-> Undefined],
   [maxPlayers |-> DefaultMaxPlayers, roundTimerSec |-> Undefined]}
Texts == {<< >>, <<" ">>, <<"a">>, <<" ", "a">>}
\* The orderings a client sends: every list up to MaxOrderLen ids, and of
\* those the lists in roster-independent ascending or descending id order
Orderings == SeqsUpTo(Tokens, MaxOrderLen)
Monotone(o) ==
  \/ \A i \in 1..(Len(o) - 1) : o[i] <= o[i + 1]
  \/ \A i \in 1..(Len(o) - 1) : o[i] >= o[i + 1]
MonotoneOrderings == {o \in Orderings : Monotone(o)}
\* The shuffle of room:shuffleSeats the model draws: the reversal
Reversal(n) == [i \in 1..n |-> n + 1 - i]
Perms == {Reversal(n) : n \in 1..MaxRoster}

\* A handler that returns before it reads its argument does the same for every
\* argument: one argument stands for all of them there
InPhase(s, phase) ==
  /\ sock[s].roomCode # Null
  /\ Registered(sock[s].roomCode)
  /\ rooms[sock[s].roomCode].phase = phase
TextsFor(s) == IF InPhase(s, "answering") THEN Texts ELSE {<< >>}
ReadsOrdering(s) ==
  /\ InPhase(s, "guessing")
  /\ sock[s].playerId = rooms[sock[s].roomCode].round.guesserId
OrderingsFor(s) == IF ReadsOrdering(s) THEN MonotoneOrderings ELSE {<< >>}

\* noise counts the commands that leave the main line of a first round, which
\* is: create, join, resume, start, answer, timeout, order, advance. A join or
\* a create after the first such command, and a start after the first round,
\* count too. MaxNoise bounds them.
Free(A) == A /\ UNCHANGED noise
Charge(A) == noise < MaxNoise /\ A /\ noise' = noise + 1
ChargeUnless(free, A) == IF free THEN Free(A) ELSE Charge(A)
FirstRound(s) ==
  sock[s].roomCode # Null /\ Registered(sock[s].roomCode)
    => rooms[sock[s].roomCode].roundCounter = 0

Next ==
  \/ \E s \in Sockets, t \in KnownTokens : ChargeUnless(noise = 0, RoomCreate(s, t))
  \/ \E s \in Sockets : Charge(RateLimited(s))
  \/ \E s \in Sockets, c \in Codes, t \in KnownTokens :
       ChargeUnless(noise = 0, RoomJoin(s, c, t))
  \/ \E s \in Sockets, t \in KnownTokens : Free(SessionHello(s, t))
  \/ \E s \in Sockets : Charge(RoomLeave(s))
  \/ \E s \in Sockets : Charge(Disconnect(s))
  \/ \E s \in Sockets, t \in Tokens : Charge(RoomKick(s, t))
  \/ \E s \in Sockets, p \in SettingsPatches : Charge(SettingsUpdate(s, p))
  \/ \E s \in Sockets : ChargeUnless(FirstRound(s), RoundStart(s))
  \/ \E c \in Codes : Free(TimerFires(c))
  \/ \E s \in Sockets : \E text \in TextsFor(s) : Free(AnswerSubmit(s, text))
  \/ \E s \in Sockets : \E o \in OrderingsFor(s) : Free(GuesserOrder(s, o))
  \/ \E s \in Sockets : \E o \in OrderingsFor(s) : Charge(OrderingPreview(s, o))
  \/ \E s \in Sockets, p \in Perms : Charge(ShuffleSeats(s, p))
  \/ \E s \in Sockets : Charge(RoundEnd(s))
  \/ \E s \in Sockets : Free(RoundNext(s))
  \/ \E t \in Tokens : Charge(TokenExpires(t))
  \/ Free(Sweep)

Spec == Init /\ [][Next]_vars

(* ------------------- round:start on rosters of any size ----------------- *)
\* A lobby of n players, the first k of them connected, with the connection
\* bound to the host or to the second player. The host has raised maxPlayers
\* where the roster needed it (settings:update), and has ended every earlier
\* round with round:end before a guess, so nobody has guessed yet and two
\* more rounds fit below MaxRounds.
Max(a, b) == IF a > b THEN a ELSE b
LobbyOf(n, k) ==
  [hostId |-> 1,
   players |-> [i \in 1..n |-> [NewPlayer(i, i - 1) EXCEPT !.connected = (i <= k)]],
   settings |-> [maxPlayers |-> Max(DefaultMaxPlayers, n),
                 roundTimerSec |-> DefaultTimerSec],
   phase |-> "lobby",
   round |-> NoRound,
   stats |-> [wins |-> 0, losses |-> 0],
   sockets |-> [u \in 1..Max(n, NumTokens) |-> Null],
   roundCounter |-> MaxRounds - 2]
InitStart ==
  \E n \in 1..StartRoster, k \in 0..StartRoster, b \in 1..2 :
    /\ k <= n /\ b <= n
    /\ rooms = [c \in Codes |->
                  IF c = 1
                  THEN [LobbyOf(n, k) EXCEPT !.sockets[b] = 1, !.players[b].connected = TRUE]
                  ELSE NoRoom]
    /\ sessions = [t \in Tokens |->
                     IF t <= n THEN [roomCode |-> 1, expired |-> FALSE] ELSE NoSession]
    /\ sock = [s \in Sockets |->
                 IF s = 1 THEN [playerId |-> b, roomCode |-> 1] ELSE Unbound]
    /\ timers = [c \in Codes |-> NoTimer]
    /\ created = 1
    /\ issued = Min(n, NumTokens)
    /\ noise = 0
    /\ out = << >>
NextStart ==
  \/ \E s \in Sockets : Free(RoundStart(s))
  \/ \E c \in Codes : Free(TimerFires(c))
SpecStart == InitStart /\ [][NextStart]_vars

(* --------------------- guesser:order on any ordering -------------------- *)
\* The first round of three players, in guessing: any deal of three cards out
\* of 1..MaxCard, any guesser, everybody answered or the deadline cut the
\* guesser off, and the connection bound to any of the three.
GuessingOf(guesserId, deck, answers) ==
  LET players == [i \in 1..3 |-> NewPlayer(i, i - 1)] IN
  [hostId |-> 1,
   players |-> players,
   settings |-> [maxPlayers |-> DefaultMaxPlayers, roundTimerSec |-> DefaultTimerSec],
   phase |-> "guessing",
   round |-> [index |-> 0,
              guesserId |-> guesserId,
              numbers |-> dealNumbers(players, deck),
              answers |-> answers,
              participants |-> Ids(players),
              orderingGuess |-> << >>,
              orderingPreview |-> Ids(players)],
   stats |-> [wins |-> 0, losses |-> 0],
   sockets |-> [u \in 1..Max(3, NumTokens) |-> Null],
   roundCounter |-> 1]
InitOrder ==
  \E g \in 1..3, b \in 1..3, deck \in DeckPrefixes(3), cut \in BOOLEAN :
    /\ \A i \in 1..3 : deck[i] <= MaxCard
    /\ rooms = [c \in Codes |->
                  IF c = 1
                  THEN [GuessingOf(g, deck,
                                   [t \in 1..3 |-> IF cut /\ t = g THEN << >> ELSE <<"a">>])
                          EXCEPT !.sockets[b] = 1]
                  ELSE NoRoom]
    /\ sessions = [t \in Tokens |->
                     IF t <= 3 THEN [roomCode |-> 1, expired |-> FALSE] ELSE NoSession]
    /\ sock = [s \in Sockets |->
                 IF s = 1 THEN [playerId |-> b, roomCode |-> 1] ELSE Unbound]
    /\ timers = [c \in Codes |-> NoTimer]
    /\ created = 1
    /\ issued = 3
    /\ noise = 0
    /\ out = << >>
\* The lists a client can send: up to LongOrderLen ids, each the id of a
\* player or an id no player has
StrangerId == NumTokens + 1
LongOrderings == SeqsUpTo(Tokens \cup {StrangerId}, LongOrderLen)
LongOrderingsFor(s) == IF ReadsOrdering(s) THEN LongOrderings ELSE {<< >>}
NextOrder ==
  \/ \E s \in Sockets : \E o \in LongOrderingsFor(s) : Free(GuesserOrder(s, o))
  \/ \E s \in Sockets : Free(RoundNext(s))
SpecOrder == InitOrder /\ [][NextOrder]_vars

(* ------------------ the deadline of a round in progress ----------------- *)
\* The state after one connection has created a room with token 1, joined it
\* with tokens 2 and 3, resumed as 1 and started the first round: three
\* participants in answering, the deadline armed by that connection.
AnsweringOf(guesserId, deck) ==
  LET players == [i \in 1..3 |-> NewPlayer(i, i - 1)] IN
  [hostId |-> 1,
   players |-> players,
   settings |-> [maxPlayers |-> DefaultMaxPlayers, roundTimerSec |-> DefaultTimerSec],
   phase |-> "answering",
   round |-> [index |-> 0,
              guesserId |-> guesserId,
              numbers |-> dealNumbers(players, deck),
              answers |-> [t \in 1..3 |-> << >>],
              participants |-> Ids(players),
              orderingGuess |-> << >>,
              orderingPreview |-> << >>],
   stats |-> [wins |-> 0, losses |-> 0],
   sockets |-> [u \in 1..Max(3, NumTokens) |-> IF u <= 3 THEN 1 ELSE Null],
   roundCounter |-> 1]
InitTimer ==
  \E g \in 1..3, deck \in SortedPrefixes(3) :
    /\ rooms = [c \in Codes |-> IF c = 1 THEN AnsweringOf(g, deck) ELSE NoRoom]
    /\ sessions = [t \in Tokens |->
                     IF t <= 3 THEN [roomCode |-> 1, expired |-> FALSE] ELSE NoSession]
    /\ sock = [s \in Sockets |->
                 IF s = 1 THEN [playerId |-> 1, roomCode |-> 1] ELSE Unbound]
    /\ timers = [c \in Codes |->
                   IF c = 1 THEN [armed |-> TRUE, by |-> 1, code |-> Null, dur |-> DefaultTimerSec,
                                  index |-> 0]
                   ELSE NoTimer]
    /\ created = 1
    /\ issued = 3
    /\ noise = 0
    /\ out = << >>
\* The steps that can find the deadline pending: resuming, answering, leaving,
\* kicking, and the deadline itself. round:end and guesser:order cancel it.
NextTimer ==
  \/ \E s \in Sockets, t \in Tokens : Free(SessionHello(s, t))
  \/ \E s \in Sockets : \E text \in TextsFor(s) : Free(AnswerSubmit(s, text))
  \/ \E c \in Codes : Free(TimerFires(c))
  \/ \E s \in Sockets : Free(RoomLeave(s))
  \/ \E s \in Sockets, t \in Tokens : Free(RoomKick(s, t))
SpecTimer == InitTimer /\ [][NextTimer]_vars

(* ----------------- round:start after rounds with a guess ---------------- *)
\* A lobby of 3..GuessRoster players after MaxRounds - 1 rounds: any of the
\* players other than the host may be disconnected, and each player has
\* guessed in none of the rounds or in one that no other player guessed in
\* (a round has one guesser; a round the host ended early has none).
GuessHistories(n) ==
  {h \in [1..n -> {Undefined} \cup 0..(MaxRounds - 2)] :
     \A i, j \in 1..n : h[i] # Undefined /\ h[i] = h[j] => i = j}
InitGuesser ==
  \E n \in 3..GuessRoster :
    \E conn \in [1..n -> BOOLEAN], h \in GuessHistories(n) :
      /\ conn[1]
      /\ rooms = [c \in Codes |->
                    IF c = 1
                    THEN [LobbyOf(n, n) EXCEPT
                            !.players = [i \in 1..n |->
                                           [NewPlayer(i, i - 1) EXCEPT
                                              !.connected = conn[i],
                                              !.lastGuessedRound = h[i]]],
                            !.sockets[1] = 1,
                            !.roundCounter = MaxRounds - 1]
                    ELSE NoRoom]
      /\ sessions = [t \in Tokens |->
                       IF t <= n THEN [roomCode |-> 1, expired |-> FALSE] ELSE NoSession]
      /\ sock = [s \in Sockets |->
                   IF s = 1 THEN [playerId |-> 1, roomCode |-> 1] ELSE Unbound]
      /\ timers = [c \in Codes |-> NoTimer]
      /\ created = 1
      /\ issued = Min(n, NumTokens)
      /\ noise = 0
      /\ out = << >>
NextGuesser ==
  \/ \E s \in Sockets : Free(RoundStart(s))
  \/ \E c \in Codes : Free(TimerFires(c))
SpecGuesser == InitGuesser /\ [][NextGuesser]_vars

(* --------------------- one client among three players ------------------ *)
\* The first round of three players who each entered from a client of their
\* own. The one connection of the model is the client that joined as player
\* 2; tokens 1 and 3 were issued to the other two clients, whose connections
\* are left out (the room holds no socket id of the model for them). The
\* deadline was armed by the host's connection, which is in room 1.
InitPrivacy ==
  \E g \in 1..3, deck \in SortedPrefixes(3) :
    /\ rooms = [c \in Codes |->
                  IF c = 1
                  THEN [AnsweringOf(g, deck) EXCEPT
                          !.sockets = [u \in 1..Max(3, NumTokens) |->
                                         IF u = 2 THEN 1 ELSE Null]]
                  ELSE NoRoom]
    /\ sessions = [t \in Tokens |->
                     IF t <= 3 THEN [roomCode |-> 1, expired |-> FALSE] ELSE NoSession]
    /\ sock = [s \in Sockets |->
                 IF s = 1 THEN [playerId |-> 2, roomCode |-> 1] ELSE Unbound]
    /\ timers = [c \in Codes |->
                   IF c = 1 THEN [armed |-> TRUE, by |-> Null, code |-> 1, dur |-> DefaultTimerSec,
                                  index |-> 0]
                   ELSE NoTimer]
    /\ created = 1
    /\ issued = 3
    /\ noise = 0
    /\ out = << >>
\* The ids of the roster, which every room:state snapshot shows
SeenIds(s) ==
  IF sock[s].roomCode # Null /\ Registered(sock[s].roomCode)
  THEN Range(Ids(rooms[sock[s].roomCode].players)) ELSE {}
NextPrivacy ==
  \/ \E s \in Sockets : \E t \in SeenIds(s) : Free(SessionHello(s, t))
  \/ \E s \in Sockets : \E text \in TextsFor(s) : Free(AnswerSubmit(s, text))
  \/ \E c \in Codes : Free(TimerFires(c))
  \/ \E s \in Sockets : \E o \in OrderingsFor(s) : Free(GuesserOrder(s, o))
SpecPrivacy == InitPrivacy /\ [][NextPrivacy]_vars

(* ------------------------ the roster of one room ----------------------- *)
\* The commands that make, fill and empty a room, from the empty registry and
\* in any number: create, join, resume, leave, kick, settings, the expiry of
\* a session and the sweep.
NextRoster ==
  \/ \E s \in Sockets, t \in KnownTokens : Free(RoomCreate(s, t))
  \/ \E s \in Sockets, c \in Codes, t \in KnownTokens : Free(RoomJoin(s, c, t))
  \/ \E s \in Sockets, t \in KnownTokens : Free(SessionHello(s, t))
  \/ \E s \in Sockets : Free(RoomLeave(s))
  \/ \E s \in Sockets, t \in Tokens : Free(RoomKick(s, t))
  \/ \E s \in Sockets, p \in SettingsPatches : Free(SettingsUpdate(s, p))
  \/ \E t \in Tokens : Free(TokenExpires(t))
  \/ Free(Sweep)
SpecRoster == Init /\ [][NextRoster]_vars

(* ----------------------- round after round in a room -------------------- *)
\* A lobby of 3..GuessRoster players that one connection has created and
\* filled and is host of, with two rounds to go below MaxRounds (the host has ended the
\* earlier ones before a guess). The rounds that follow are played, ended by
\* the host or broken off by a kick; the connection resumes as any of the
\* players to answer and to guess, and the host sets or clears the duration
\* of the answering timer.
InitRounds ==
  \E n \in 3..GuessRoster :
    /\ rooms = [c \in Codes |->
                  IF c = 1
                  THEN [LobbyOf(n, n) EXCEPT
                          !.sockets = [u \in 1..Max(n, NumTokens) |->
                                         IF u <= n THEN 1 ELSE Null]]
                  ELSE NoRoom]
    /\ sessions = [t \in Tokens |->
                     IF t <= n THEN [roomCode |-> 1, expired |-> FALSE] ELSE NoSession]
    /\ sock = [s \in Sockets |->
                 IF s = 1 THEN [playerId |-> 1, roomCode |-> 1] ELSE Unbound]
    /\ timers = [c \in Codes |-> NoTimer]
    /\ created = 1
    /\ issued = Min(n, NumTokens)
    /\ noise = 0
    /\ out = << >>
TimerPatches ==
  {[maxPlayers |-> Undefined, roundTimerSec |-> JsonNull],
   [maxPlayers |-> Undefined, roundTimerSec |-> DefaultTimerSec]}
NextRounds ==
  \/ \E s \in Sockets, p \in TimerPatches : Free(SettingsUpdate(s, p))
  \/ \E s \in Sockets, t \in Tokens : Free(SessionHello(s, t))
  \/ \E s \in Sockets : Free(RoundStart(s))
  \/ \E s \in Sockets : \E text \in TextsFor(s) : Free(AnswerSubmit(s, text))
  \/ \E c \in Codes : Free(TimerFires(c))
  \/ \E s \in Sockets : \E o \in OrderingsFor(s) : Free(GuesserOrder(s, o))
  \/ \E s \in Sockets : Free(RoundNext(s))
  \/ \E s \in Sockets : Free(RoundEnd(s))
  \/ \E s \in Sockets, t \in Tokens : Free(RoomKick(s, t))
SpecRounds == InitRounds /\ [][NextRounds]_vars

(* ------------------- a player on more than one connection -------------- *)
\* A lobby of three connected players and ResumeSockets connections: the
\* first is the one the host created the room on, the others are new and
\* bound to nothing (a client that lost its network opens a new connection
\* and resumes before the server has noticed the old one is dead). Players 2
\* and 3 are on connections of their own, which are left out.
Connections == 1..ResumeSockets
InitResume ==
  /\ rooms = [c \in Codes |->
                IF c = 1 THEN [LobbyOf(3, 3) EXCEPT !.sockets[1] = 1] ELSE NoRoom]
  /\ sessions = [t \in Tokens |->
                   IF t <= 3 THEN [roomCode |-> 1, expired |-> FALSE] ELSE NoSession]
  /\ sock = [s \in Connections |->
               IF s = 1 THEN [playerId |-> 1, roomCode |-> 1] ELSE Unbound]
  /\ timers = [c \in Codes |-> NoTimer]
  /\ created = 1
  /\ issued = 3
  /\ noise = 0
  /\ out = << >>
NextResume ==
  \/ \E s \in Connections, t \in Tokens : Free(SessionHello(s, t))
  \/ \E s \in Connections : Free(Disconnect(s))
SpecResume == InitResume /\ [][NextResume]_vars

(* ---------------------- the deadline does fire -------------------------- *)
\* The round of SpecTimer as the host's connection sees it (an answer, leaving,
\* a disconnect, ending the round) with a pending setTimeout that the event
\* loop runs in the end: the callback of an armed deadline is not put off for
\* ever.
NextLive ==
  \/ \E s \in Sockets : \E text \in TextsFor(s) : Free(AnswerSubmit(s, text))
  \/ \E c \in Codes : Free(TimerFires(c))
  \/ \E s \in Sockets : Free(RoomLeave(s))
  \/ \E s \in Sockets : Free(Disconnect(s))
  \/ \E s \in Sockets : Free(RoundEnd(s))
SpecLive ==
  InitTimer /\ [][NextLive]_vars /\ WF_vars(\E c \in Codes : Free(TimerFires(c)))

(* ------------------------ the guesser, round by round ------------------- *)
\* A new room of connected players, as many as an ordering can name, in which
\* nobody has guessed and no round has been started. Nobody joins, leaves or disconnects, and
\* every round is played to its end: started from the lobby or from reveal,
\* moved to guessing by the deadline, and closed by an ordering of its guesser
\* that is accepted. The one connection resumes as the guesser to send it.
InitRotation ==
  \E n \in MinPlayers..MaxOrderLen :
    /\ rooms = [c \in Codes |->
                  IF c = 1
                  THEN [LobbyOf(n, n) EXCEPT
                          !.sockets = [u \in 1..Max(n, NumTokens) |->
                                         IF u <= n THEN 1 ELSE Null],
                          !.roundCounter = 0]
                  ELSE NoRoom]
    /\ sessions = [t \in Tokens |->
                     IF t <= n THEN [roomCode |-> 1, expired |-> FALSE] ELSE NoSession]
    /\ sock = [s \in Sockets |->
                 IF s = 1 THEN [playerId |-> 1, roomCode |-> 1] ELSE Unbound]
    /\ timers = [c \in Codes |-> NoTimer]
    /\ created = 1
    /\ issued = Min(n, NumTokens)
    /\ noise = 0
    /\ out = << >>
BetweenRounds(s) == InPhase(s, "lobby") \/ InPhase(s, "reveal")
NextRotation ==
  \/ \E s \in Sockets, t \in Tokens : Free(SessionHello(s, t))
  \/ \E s \in Sockets : BetweenRounds(s) /\ Free(RoundStart(s))
  \/ \E s \in Sockets : \E text \in TextsFor(s) : Free(AnswerSubmit(s, text))
  \/ \E c \in Codes : Free(TimerFires(c))
  \/ \E s \in Sockets : \E o \in OrderingsFor(s) : Free(GuesserOrder(s, o))
  \/ \E s \in Sockets : Free(RoundNext(s))
SpecRotation == InitRotation /\ [][NextRotation]_vars

(* ----------------------- entering a round in play ----------------------- *)
\* The round of SpecTimer with room:join as well: a participant leaves and a
\* client enters the room while the round is in answering or in guessing,
\* with a token of its choice. MaxNoise bounds the joins.
NextLateJoin ==
  \/ \E s \in Sockets, c \in Codes, t \in KnownTokens : Charge(RoomJoin(s, c, t))
  \/ \E s \in Sockets, t \in Tokens : Free(SessionHello(s, t))
  \/ \E s \in Sockets : \E text \in TextsFor(s) : Free(AnswerSubmit(s, text))
  \/ \E c \in Codes : Free(TimerFires(c))
  \/ \E s \in Sockets : Free(RoomLeave(s))
SpecLateJoin == InitTimer /\ [][NextLateJoin]_vars

(* ============================== properties ============================== *)
RoundPhases == {"answering", "guessing", "reveal"}

\* C1: in every reachable state every registered room has a current round
\* exactly when its phase is answering, guessing or reveal.
C1_RoundIffRoundPhase ==
  \A c \in Codes :
    Registered(c) => (HasRound(rooms[c]) <=> rooms[c].phase \in RoundPhases)
\* A kick has aborted a round: the room is back in the lobby without a round,
\* and the deadline of the aborted round is still pending.
C1_Witness ==
  \E c \in Codes :
    /\ Registered(c) /\ rooms[c].phase = "lobby" /\ ~HasRound(rooms[c])
    /\ rooms[c].roundCounter > 0 /\ timers[c].armed

\* C2: every step of a room either keeps its phase and its round, or is one of
\* lobby -> answering, answering -> guessing, guessing -> reveal,
\* reveal -> lobby, or an abort from answering or guessing to lobby; no step
\* replaces a round in progress by another round.
AllowedPhaseChanges ==
  {<<"lobby", "answering">>, <<"answering", "guessing">>, <<"guessing", "reveal">>,
   <<"reveal", "lobby">>, <<"answering", "lobby">>, <<"guessing", "lobby">>}
C2_PhaseChanges ==
  [][\A c \in Codes :
       rooms[c].phase # "none" /\ rooms'[c].phase # "none" =>
         /\ rooms[c].phase # rooms'[c].phase =>
              <<rooms[c].phase, rooms'[c].phase>> \in AllowedPhaseChanges
         /\ HasRound(rooms[c]) /\ HasRound(rooms'[c]) =>
              rooms'[c].round.index = rooms[c].round.index]_vars

NumConnected(room) ==
  Cardinality({i \in 1..Len(room.players) : room.players[i].connected})
IsHostOf(s) ==
  /\ sock[s].roomCode # Null /\ sock[s].playerId # Null
  /\ Registered(sock[s].roomCode)
  /\ sock[s].playerId = rooms[sock[s].roomCode].hostId

\* C3: round:start sent by the host fails with NOT_ENOUGH_PLAYERS when fewer
\* than 3 players are connected and with TOO_MANY_PLAYERS when more than 10
\* are, and in both cases leaves the rooms and their timers as they were.
C3_StartRejected ==
  [][\A s \in Sockets :
       IsHostOf(s) /\ RoundStart(s) =>
         LET n == NumConnected(rooms[sock[s].roomCode]) IN
         /\ n < 3 => /\ out' = <<Error(s, "NOT_ENOUGH_PLAYERS")>>
                      /\ UNCHANGED <<rooms, timers>>
         /\ n > 10 => /\ out' = <<Error(s, "TOO_MANY_PLAYERS")>>
                       /\ UNCHANGED <<rooms, timers>>]_vars
\* The host of a lobby with 11 connected players has been refused.
C3_Witness ==
  /\ out = <<Error(1, "TOO_MANY_PLAYERS")>>
  /\ IsHostOf(1)
  /\ NumConnected(rooms[sock[1].roomCode]) = 11
  /\ rooms[sock[1].roomCode].phase = "lobby"

Count(o, x) == Cardinality({i \in 1..Len(o) : o[i] = x})
IsPermutation(o, of) ==
  /\ Len(o) = Len(of)
  /\ \A x \in Range(o) \cup Range(of) : Count(o, x) = Count(of, x)

\* C8: a submitted ordering is accepted only when it is a permutation of the
\* round's participants: whenever a room is in reveal, the guess that took it
\* there holds every participant exactly once and nothing else.
C8_AcceptedIsPermutation ==
  \A c \in Codes :
    Registered(c) /\ rooms[c].phase = "reveal" /\ HasRound(rooms[c]) =>
      IsPermutation(rooms[c].round.orderingGuess, rooms[c].round.participants)

\* The ascending arrangement of the participants, stated without the sort: a
\* permutation of them along which the dealt numbers never decrease.
IsAscendingArrangement(o, round) ==
  /\ IsPermutation(o, round.participants)
  /\ \A i \in 1..(Len(o) - 1) : round.numbers[o[i]] <= round.numbers[o[i + 1]]
\* C9: the win flag reported for an accepted ordering is true exactly when the
\* submitted list is the participants in ascending order of their dealt
\* numbers; any other list, such as that order with two neighbours swapped,
\* is reported as a loss.
C9_WinIffTrueOrder ==
  \A i \in 1..Len(out) :
    out[i].type = "round:result" =>
      /\ out[i].data.isWin <=>
           IsAscendingArrangement(out[i].data.submitted, rooms[out[i].code].round)
      /\ IsAscendingArrangement(out[i].data.trueOrder, rooms[out[i].code].round)
\* A win on a deal whose ascending order is not the order of the roster.
C9_Witness ==
  /\ out # << >> /\ out[1].type = "round:result"
  /\ out[1].data.isWin
  /\ out[1].data.submitted = <<3, 1, 2>>

\* C10: guesser:order sent during guessing by a player who is not the round's
\* guesser is answered with NOT_GUESSER and changes no room: phase, guess,
\* win and loss counters and every lastGuessedRound stay as they were.
C10_NotGuesserRejected ==
  [][\A s \in Sockets :
       /\ InPhase(s, "guessing") /\ sock[s].playerId # Null
       /\ sock[s].playerId # rooms[sock[s].roomCode].round.guesserId
       /\ \E o \in LongOrderings : GuesserOrder(s, o)
       => /\ out' = <<Error(s, "NOT_GUESSER")>>
          /\ UNCHANGED <<rooms, timers>>]_vars
\* The host, who is not the guesser, has been refused during guessing.
C10_Witness ==
  /\ out = <<Error(1, "NOT_GUESSER")>>
  /\ InPhase(1, "guessing")
  /\ IsHostOf(1)
  /\ sock[1].playerId # rooms[sock[1].roomCode].round.guesserId

\* C4: in every round the dealt numbers are a one-to-one map from the
\* participants into 1..10: a number for each participant and for nobody
\* else, no number twice, and as many numbers as the round has participants.
C4_DealIsBijection ==
  \A c \in Codes :
    Registered(c) /\ HasRound(rooms[c]) =>
      LET round == rooms[c].round IN
      /\ DOMAIN round.numbers = Range(round.participants)
      /\ \A t \in DOMAIN round.numbers : round.numbers[t] \in 1..10
      /\ Injective(round.numbers)
      /\ Cardinality(DOMAIN round.numbers) = Len(round.participants)

Unanswered(round) ==
  {i \in 1..Len(round.participants) : round.answers[round.participants[i]] = << >>}
\* C5: a room is in answering only while the answer of at least one
\* participant is empty: the answer that fills the last gap moves the room to
\* guessing in the same step.
C5_AnsweringOnlyWhileUnanswered ==
  \A c \in Codes :
    Registered(c) /\ rooms[c].phase = "answering" /\ HasRound(rooms[c]) =>
      Unanswered(rooms[c].round) # {}

\* C6: the deadline that fires on a room in answering with a participant
\* still unanswered moves it to guessing; the deadline that fires after the
\* phase has left answering, or on a room that is gone, changes no room and
\* emits nothing.
C6_DeadlineFires ==
  [][\A c \in Codes :
       TimerFires(c) =>
         /\ ( /\ Registered(c) /\ rooms[c].phase = "answering" /\ HasRound(rooms[c])
              /\ Unanswered(rooms[c].round) # {} )
            => rooms'[c].phase = "guessing"
         /\ (~Registered(c) \/ rooms[c].phase # "answering")
            => UNCHANGED <<rooms, sessions, sock>> /\ out' = << >>]_vars
\* The deadline has cut the answering short: the room is in guessing, asked
\* for the guesser in this step, and a participant has not answered.
C6_Witness ==
  \E c \in Codes :
    /\ Registered(c) /\ rooms[c].phase = "guessing" /\ HasRound(rooms[c])
    /\ Unanswered(rooms[c].round) # {}
    /\ out # << >> /\ out[1].type = "guesser:needed"
\* The deadline of a room that is gone is still pending
TimerOutlivesRoom == \E c \in Codes : ~Registered(c) /\ timers[c].armed
\* The deadline of a round that was aborted is still pending
TimerOutlivesRound ==
  \E c \in Codes : Registered(c) /\ rooms[c].phase = "lobby" /\ timers[c].armed

NeedsGuesser(events, c) ==
  {i \in 1..Len(events) : events[i].type = "guesser:needed" /\ events[i].code = c}
\* C7: a round asks for its guesser at most once. The step that emits
\* guesser:needed emits it once and takes the room from answering to guessing
\* in the same round, and a round that is in guessing or reveal never returns
\* to answering, so neither a further answer nor the deadline repeats it.
C7_GuesserNeededOnce ==
  [][\A c \in Codes :
       /\ NeedsGuesser(out', c) # {} =>
            /\ Cardinality(NeedsGuesser(out', c)) = 1
            /\ rooms[c].phase = "answering" /\ rooms'[c].phase = "guessing"
            /\ rooms'[c].round.index = rooms[c].round.index
       /\ ( /\ rooms[c].phase \in {"guessing", "reveal"}
            /\ rooms'[c].phase \in RoundPhases
            /\ rooms'[c].round.index = rooms[c].round.index )
          => rooms'[c].phase # "answering"]_vars
\* The last answer has moved the room to guessing and cancelled the deadline.
C7_Witness ==
  \E c \in Codes :
    /\ Registered(c) /\ rooms[c].phase = "guessing" /\ HasRound(rooms[c])
    /\ Unanswered(rooms[c].round) = {}
    /\ NeedsGuesser(out, c) # {}
    /\ ~timers[c].armed

\* A round starts in room c in this step
StartsRound(c) ==
  /\ rooms[c].phase # "none" /\ rooms'[c].phase # "none"
  /\ HasRound(rooms'[c])
  /\ ~HasRound(rooms[c]) \/ rooms'[c].round.index # rooms[c].round.index
ConnectedEntries(room) == {i \in 1..Len(room.players) : room.players[i].connected}

\* C11: the guesser of a round is a player who is connected when the round
\* starts, and so is one of its participants.
C11_GuesserIsConnected ==
  [][\A c \in Codes :
       StartsRound(c) =>
         /\ \E i \in ConnectedEntries(rooms[c]) :
              rooms[c].players[i].id = rooms'[c].round.guesserId
         /\ rooms'[c].round.guesserId \in Range(rooms'[c].round.participants)]_vars
\* A round has started whose guesser has guessed before, while a player who
\* never guessed is in the roster, disconnected, and was passed over.
C11_Witness ==
  \E c \in Codes :
    /\ Registered(c) /\ rooms[c].phase = "answering" /\ HasRound(rooms[c])
    /\ \E i, j \in 1..Len(rooms[c].players) :
         /\ ~rooms[c].players[i].connected
         /\ rooms[c].players[i].lastGuessedRound = Undefined
         /\ rooms[c].players[j].id = rooms[c].round.guesserId
         /\ rooms[c].players[j].lastGuessedRound # Undefined

\* C12: at a round start the guesser is a never-guessed connected player if
\* there is one; otherwise it is a connected player whose lastGuessedRound is
\* the least among the connected players.
C12_LeastRecentGuesser ==
  [][\A c \in Codes :
       StartsRound(c) =>
         LET ps == rooms[c].players
             conn == ConnectedEntries(rooms[c])
             never == {i \in conn : ps[i].lastGuessedRound = Undefined}
             g == rooms'[c].round.guesserId
         IN  IF never # {}
             THEN \E i \in never : ps[i].id = g
             ELSE \E i \in conn :
                    /\ ps[i].id = g
                    /\ \A j \in conn : ps[i].lastGuessedRound <= ps[j].lastGuessedRound]_vars
\* A round has started among connected players who have all guessed before,
\* in different rounds, and its guesser is not the first of them in the roster.
C12_Witness ==
  \E c \in Codes :
    /\ Registered(c) /\ rooms[c].phase = "answering" /\ HasRound(rooms[c])
    /\ rooms[c].round.index = MaxRounds - 1
    /\ \A i \in ConnectedEntries(rooms[c]) : rooms[c].players[i].lastGuessedRound # Undefined
    /\ rooms[c].round.guesserId # rooms[c].players[1].id

\* The players of room c that this step removes from its roster
Removed(c) ==
  {t \in Range(Ids(rooms[c].players)) :
     Cardinality({i \in 1..Len(rooms'[c].players) : rooms'[c].players[i].id = t})
       < Cardinality({i \in 1..Len(rooms[c].players) : rooms[c].players[i].id = t})}
\* C13: a step that removes a participant of the round in progress from the
\* roster, by a leave or by a kick, discards the round and returns the room
\* to the lobby.
C13_RosterChangeAborts ==
  [][\A c \in Codes :
       /\ rooms[c].phase \in RoundPhases /\ rooms'[c].phase # "none"
       /\ HasRound(rooms[c])
       /\ Removed(c) \cap Range(rooms[c].round.participants) # {}
       => rooms'[c].phase = "lobby" /\ ~HasRound(rooms'[c])]_vars

\* The numbers the connection s is sent in deal:self messages
DealtTo(events, s) ==
  {events[i].data : i \in {j \in 1..Len(events) :
                              events[j].type = "deal:self" /\ events[j].code = s}}
\* C14: while a round is in answering or guessing, a connection that is in
\* the room as one participant is sent no other participant's number,
\* whatever command it sends.
C14_OwnNumberOnly ==
  [][\A s \in Sockets :
       /\ sock[s].roomCode # Null /\ sock[s].playerId # Null
       /\ Registered(sock[s].roomCode)
       /\ rooms[sock[s].roomCode].phase \in {"answering", "guessing"}
       /\ sock[s].playerId \in DOMAIN rooms[sock[s].roomCode].round.numbers
       => DealtTo(out', s) \subseteq
            {rooms[sock[s].roomCode].round.numbers[sock[s].playerId]}]_vars

\* The room:state snapshots among the events of the last step
Snapshots == {i \in 1..Len(out) : out[i].type = "room:state"}

\* C15: no room:state snapshot holds a dealt number: the numbers of the round
\* in a snapshot are empty in every phase, the reveal included.
C15_NoNumbersInSnapshot ==
  \A i \in Snapshots :
    out[i].data.currentRound # NoRound => DOMAIN out[i].data.currentRound.numbers = {}
\* A snapshot of a room in reveal, whose round holds the dealt numbers
C15_Witness ==
  \E i \in Snapshots :
    /\ out[i].data.phase = "reveal"
    /\ out[i].data.currentRound # NoRound
    /\ DOMAIN out[i].data.currentRound.numbers = {}
    /\ DOMAIN rooms[out[i].code].round.numbers # {}

\* C16: a room:state snapshot holds answers only when its phase is guessing
\* or reveal: a snapshot taken in answering has an empty answers mapping,
\* whatever has been submitted.
C16_AnswersWithheld ==
  \A i \in Snapshots :
    out[i].data.currentRound # NoRound /\ out[i].data.phase \notin {"guessing", "reveal"}
      => DOMAIN out[i].data.currentRound.answers = {}
\* A snapshot taken in answering after a participant has submitted a text
C16_Witness ==
  \E i \in Snapshots :
    /\ out[i].data.phase = "answering"
    /\ DOMAIN out[i].data.currentRound.answers = {}
    /\ \E t \in DOMAIN rooms[out[i].code].round.answers :
         rooms[out[i].code].round.answers[t] # << >>

\* C17: a room that is not in answering has no deadline pending: whatever
\* takes the room out of answering cancels the deadline.
C17_NoDeadlineOutsideAnswering ==
  \A c \in Codes :
    Registered(c) /\ rooms[c].phase # "answering" => ~timers[c].armed

\* C18: a room that is no longer registered has no deadline pending: deleting
\* the room cancels it.
C18_NoDeadlineForDeletedRoom ==
  \A c \in Codes : timers[c].armed => Registered(c)

\* C19: the seats of the N players of a room are the numbers 0..N-1, each
\* taken once, in every reachable state.
C19_SeatsDense ==
  \A c \in Codes :
    Registered(c) =>
      LET ps == rooms[c].players IN
      /\ {ps[i].seat : i \in 1..Len(ps)} = 0..(Len(ps) - 1)
      /\ \A i, j \in 1..Len(ps) : ps[i].seat = ps[j].seat => i = j

HostInRoster ==
  \A c \in Codes :
    Registered(c) /\ Len(rooms[c].players) > 0 =>
      rooms[c].hostId \in Range(Ids(rooms[c].players))
\* C20: after every step the host of a room with players is one of them; the
\* leave of the host makes the first remaining player of the roster the host;
\* and the host's kick aimed at the host is refused with CANNOT_KICK_HOST and
\* leaves the rooms as they were.
C20_HostInRoster ==
  [][/\ HostInRoster'
     /\ \A s \in Sockets :
          IsHostOf(s) /\ RoomLeave(s) /\ rooms'[sock[s].roomCode].phase # "none" =>
            rooms'[sock[s].roomCode].hostId = rooms'[sock[s].roomCode].players[1].id
     /\ \A s \in Sockets :
          IsHostOf(s) /\ RoomKick(s, rooms[sock[s].roomCode].hostId) =>
            out' = <<Error(s, "CANNOT_KICK_HOST")>> /\ UNCHANGED rooms]_vars
\* The first host has left and the player who was second in the roster is
\* the host of the two who remain.
C20_Witness ==
  \E c \in Codes :
    /\ Registered(c) /\ Len(rooms[c].players) = 2
    /\ rooms[c].hostId = rooms[c].players[1].id
    /\ rooms[c].hostId # 1
    /\ \A i \in 1..2 : rooms[c].players[i].id # 1

\* The roster entries, over all rooms, whose id is the token t
EntriesOf(t) ==
  {<<c, i>> \in Codes \X (1..MaxRoster) :
     Registered(c) /\ i <= Len(rooms[c].players) /\ rooms[c].players[i].id = t}
\* C21: a token is the id of at most one player over all rooms: a create or a
\* join with a token that is in a roster makes no second player with that id.
C21_TokenOnePlayer ==
  \A t \in Tokens : Cardinality(EntriesOf(t)) <= 1

\* The session of token t names a registered room that has a player t
Resumable(t) ==
  /\ sessions[t].roomCode # Null /\ ~sessions[t].expired
  /\ Registered(sessions[t].roomCode)
  /\ t \in Range(Ids(rooms[sessions[t].roomCode].players))
\* C22: a disconnect only clears the connected flag of the player and leaves
\* the roster, the round and the sessions as they were; session:hello with
\* the unexpired token of a player binds the connection to that player, sets
\* the flag again, changes neither seat nor lastGuessedRound nor the round,
\* and sends the player's dealt number of the round to the connection.
C22_ResumeSamePlayer ==
  [][\A s \in Sockets :
       /\ ( /\ Disconnect(s)
            /\ sock[s].roomCode # Null /\ sock[s].playerId # Null
            /\ Registered(sock[s].roomCode)
            /\ FindIndex(rooms[sock[s].roomCode].players, sock[s].playerId) # 0 )
          => LET c == sock[s].roomCode
                 i == FindIndex(rooms[c].players, sock[s].playerId)
             IN  /\ rooms'[c].players = [rooms[c].players EXCEPT ![i].connected = FALSE]
                 /\ rooms'[c].round = rooms[c].round
                 /\ rooms'[c].phase = rooms[c].phase
                 /\ sessions' = sessions
       /\ \A t \in Tokens :
            SessionHello(s, t) /\ Resumable(t) =>
              LET c == sessions[t].roomCode
                  i == FindIndex(rooms[c].players, t)
              IN  /\ rooms'[c].players = [rooms[c].players EXCEPT ![i].connected = TRUE]
                  /\ rooms'[c].round = rooms[c].round
                  /\ rooms'[c].phase = rooms[c].phase
                  /\ sock'[s] = [playerId |-> t, roomCode |-> c]
                  /\ sessions' = sessions
                  /\ HasRound(rooms[c]) /\ t \in Range(rooms[c].round.participants) =>
                       DealtTo(out', s) = {rooms[c].round.numbers[t]}]_vars
\* Since the round started the connection has been lost and a new one has
\* resumed as the same player: everybody is connected, the connection is
\* bound to a participant and has just been sent that participant's number.
C22_Witness ==
  \E c \in Codes :
    /\ Registered(c) /\ rooms[c].phase = "answering" /\ HasRound(rooms[c])
    /\ timers[c].armed /\ timers[c].by = Null
    /\ \A i \in 1..Len(rooms[c].players) : rooms[c].players[i].connected
    /\ sock[1] = [playerId |-> rooms[c].round.guesserId, roomCode |-> c]
    /\ DealtTo(out, 1) = {rooms[c].round.numbers[rooms[c].round.guesserId]}

\* C23: session:hello with a token that has no session, or an expired one,
\* or one whose room is gone or whose player is no longer in the roster,
\* leaves every room, every timer and the binding of the connection as they
\* were and emits nothing.
C23_ResumeFailsSilently ==
  [][\A s \in Sockets, t \in Tokens :
       SessionHello(s, t) /\ ~Resumable(t) =>
         /\ UNCHANGED <<rooms, sock, timers>>
         /\ out' = << >>]_vars
\* A player has left a room that others are still in: the session of the
\* token still names the room, the connection is bound to nothing, and the
\* last command was answered with nothing.
C23_Witness ==
  \E t \in Tokens :
    /\ sessions[t].roomCode # Null /\ ~sessions[t].expired
    /\ Registered(sessions[t].roomCode)
    /\ t \notin Range(Ids(rooms[sessions[t].roomCode].players))
    /\ sock[1] = Unbound
    /\ out = << >>

\* C24: every step that changes the phase of a room broadcasts a room:state
\* snapshot to that room, whoever is host or connected at the time.
C24_TransitionBroadcasts ==
  [][\A c \in Codes :
       /\ rooms[c].phase # "none" /\ rooms'[c].phase # "none"
       /\ rooms'[c].phase # rooms[c].phase
       => \E i \in 1..Len(out') :
            out'[i].type = "room:state" /\ out'[i].to = "room" /\ out'[i].code = c]_vars

\* C25: every room:state snapshot a step broadcasts is the public view of the
\* room as the step leaves it: it shows all the changes of the step, so the
\* snapshot of an accepted guesser:order shows the guesser's new
\* lastGuessedRound.
C25_SnapshotIsFinalState ==
  \A i \in Snapshots :
    Registered(out[i].code) => out[i].data = publicRoomState(rooms[out[i].code])

\* C26: when the duration of the answering timer is missing from the
\* settings, a round start arms no deadline, and no deadline moves the room
\* from answering to guessing.
C26_NoDeadlineWithoutDuration ==
  [][\A c \in Codes :
       /\ StartsRound(c) /\ rooms[c].settings.roundTimerSec = JsonNull
            => ~timers'[c].armed
       /\ ( /\ TimerFires(c) /\ Registered(c)
            /\ rooms[c].settings.roundTimerSec = JsonNull )
            => rooms'[c].phase = rooms[c].phase]_vars

\* C29: the round index of a room only grows: the counter of a room never
\* falls, the index of the round in progress is below the counter, and a
\* round that starts gets an index that is at least the counter before the
\* start, so above the index of every earlier round, whether that round was
\* played to the end, ended by the host or broken off by a kick.
C29_RoundIndexIncreases ==
  [][\A c \in Codes :
       rooms[c].phase # "none" /\ rooms'[c].phase # "none" =>
         /\ rooms'[c].roundCounter >= rooms[c].roundCounter
         /\ HasRound(rooms'[c]) => rooms'[c].round.index < rooms'[c].roundCounter
         /\ StartsRound(c) => rooms'[c].round.index >= rooms[c].roundCounter]_vars
\* A room of four has had a round and lost a player to a kick, and a later
\* round is in progress among the three who remain: its index is the last
\* one below MaxRounds.
C29_Witness ==
  \E c \in Codes :
    /\ Registered(c) /\ HasRound(rooms[c])
    /\ rooms[c].round.index = MaxRounds - 1
    /\ Len(rooms[c].players) = 3
    /\ 4 \in Range(Ids(rooms[c].players))

\* C27: room:join on a room that has maxPlayers players or more is answered
\* with ROOM_FULL, and room:join with a code no room has is answered with
\* ROOM_NOT_FOUND; both leave rooms, sessions, bindings and timers as they
\* were.
C27_JoinRejected ==
  [][\A s \in Sockets, c \in Codes, t \in Tokens :
       RoomJoin(s, c, t) =>
         /\ ~Registered(c) =>
              /\ out' = <<Error(s, "ROOM_NOT_FOUND")>>
              /\ UNCHANGED <<rooms, sessions, sock, timers>>
         /\ Registered(c) /\ Len(rooms[c].players) >= rooms[c].settings.maxPlayers =>
              /\ out' = <<Error(s, "ROOM_FULL")>>
              /\ UNCHANGED <<rooms, sessions, sock, timers>>]_vars
\* A join has been refused by a room whose host had lowered maxPlayers to
\* the size of the roster.
C27_Witness ==
  /\ out = <<Error(1, "ROOM_FULL")>>
  /\ \E c \in Codes :
       /\ Registered(c)
       /\ Len(rooms[c].players) = rooms[c].settings.maxPlayers

\* C28: after every step every registered room has at least one player, and
\* a step removes a room from the registry only when it is the leave of the
\* one player the room has left; no kick and no sweep removes a room.
C28_RoomIffPlayers ==
  [][\A c \in Codes :
       /\ rooms'[c].phase # "none" => Len(rooms'[c].players) >= 1
       /\ rooms[c].phase # "none" /\ rooms'[c].phase = "none" =>
            /\ Len(rooms[c].players) = 1
            /\ \E s \in Sockets :
                 /\ sock[s] = [playerId |-> rooms[c].players[1].id, roomCode |-> c]
                 /\ RoomLeave(s)]_vars
\* A room that two players have been in is gone: the last of them has left.
C28_Witness ==
  /\ created = 1 /\ ~Registered(1)
  /\ issued >= 2
  /\ sock[1] = Unbound

\* C30: settings:update, room:kick, room:shuffleSeats, round:start, round:end
\* and round:next sent by a connection that is in a room as a player other
\* than the host are answered with NOT_HOST and leave rooms, sessions,
\* bindings and timers as they were.
C30_NotHostRejected ==
  [][\A s \in Sockets :
       /\ sock[s].roomCode # Null /\ sock[s].playerId # Null
       /\ Registered(sock[s].roomCode)
       /\ sock[s].playerId # rooms[sock[s].roomCode].hostId
       /\ \/ \E p \in SettingsPatches : SettingsUpdate(s, p)
          \/ \E t \in Tokens : RoomKick(s, t)
          \/ \E perm \in Perms : ShuffleSeats(s, perm)
          \/ RoundStart(s)
          \/ RoundEnd(s)
          \/ RoundNext(s)
       => /\ out' = <<Error(s, "NOT_HOST")>>
          /\ UNCHANGED <<rooms, sessions, sock, timers>>]_vars
\* During answering a player who is not the host has been refused.
C30_Witness ==
  /\ out = <<Error(1, "NOT_HOST")>>
  /\ InPhase(1, "answering")
  /\ sock[1].playerId # Null
  /\ sock[1].playerId # rooms[sock[1].roomCode].hostId
  /\ sock[1].playerId \in Range(Ids(rooms[sock[1].roomCode].players))

\* C31: round:next sent by the host of a room in reveal discards the round
\* and makes the phase lobby, leaving the rest of the room as it was; sent
\* in lobby, answering or guessing it changes nothing and emits nothing.
C31_AdvanceOnlyFromReveal ==
  [][\A s \in Sockets :
       IsHostOf(s) /\ RoundNext(s) =>
         LET c == sock[s].roomCode IN
         IF rooms[c].phase = "reveal"
         THEN /\ rooms' = [rooms EXCEPT ![c] =
                             [rooms[c] EXCEPT !.round = NoRound, !.phase = "lobby"]]
              /\ UNCHANGED <<sessions, sock, timers>>
         ELSE /\ UNCHANGED <<rooms, sessions, sock, timers>>
              /\ out' = << >>]_vars
\* The host has advanced from a reveal: the room is in the lobby without a
\* round, a guess has been counted, and the snapshot of the lobby was sent.
C31_Witness ==
  \E c \in Codes :
    /\ Registered(c) /\ rooms[c].phase = "lobby" /\ ~HasRound(rooms[c])
    /\ rooms[c].stats.wins + rooms[c].stats.losses = 1
    /\ IsHostOf(1)
    /\ out = emitState(c, rooms)

C33_DeadlineOfCurrentRound ==
  [][\A c \in Codes :
       TimerFires(c) /\ rooms'[c] # rooms[c] =>
         /\ HasRound(rooms[c])
         /\ timers[c].index = rooms[c].round.index]_vars
\* In a room of four that lost a player to a kick, the deadline of a later
\* round has fired with answers missing and moved the round to guessing.
C33_Witness ==
  \E c \in Codes :
    /\ Registered(c) /\ rooms[c].phase = "guessing" /\ HasRound(rooms[c])
    /\ rooms[c].round.index = MaxRounds - 1
    /\ Len(rooms[c].players) = 3 /\ 4 \in Range(Ids(rooms[c].players))
    /\ out # << >> /\ out[1].type = "guesser:needed"
    /\ Unanswered(rooms[c].round) # {}

\* C34: a player that an open connection is bound to is flagged connected:
\* the disconnect of a connection the player has left behind by resuming on
\* a new one does not clear the flag.
C34_BoundIsConnected ==
  \A s \in DOMAIN sock :
    /\ sock[s].roomCode # Null /\ sock[s].playerId # Null
    /\ Registered(sock[s].roomCode)
    /\ FindIndex(rooms[sock[s].roomCode].players, sock[s].playerId) # 0
    => rooms[sock[s].roomCode].players[
         FindIndex(rooms[sock[s].roomCode].players, sock[s].playerId)].connected

\* The seat of the first roster entry with the id t
SeatOf(room, t) == room.players[FindIndex(room.players, t)].seat
\* C35: the step that takes a room from answering to guessing, by the last
\* answer or by the deadline, sets the ordering preview to the participants
\* of the round by ascending seat: every participant once and nothing else.
C35_PreviewIsParticipantsBySeat ==
  [][\A c \in Codes :
       rooms[c].phase = "answering" /\ rooms'[c].phase = "guessing" =>
         LET room == rooms'[c]
             pv == room.round.orderingPreview
         IN  /\ IsPermutation(pv, room.round.participants)
             /\ \A i, j \in 1..Len(pv) :
                  /\ i < j
                  /\ pv[i] \in Range(Ids(room.players))
                  /\ pv[j] \in Range(Ids(room.players))
                  => SeatOf(room, pv[i]) <= SeatOf(room, pv[j])]_vars

\* The lastGuessedRound values the roster holds for the id t
GuessedBy(room, t) ==
  {room.players[i].lastGuessedRound :
     i \in {j \in 1..Len(room.players) : room.players[j].id = t}}
\* C36: the step that takes a room from guessing to reveal sets the
\* lastGuessedRound of the guesser to the index of the round, leaves every
\* other player's as it was, and adds one to exactly one of wins and losses;
\* every other step, an end or an abort of a round included, leaves the
\* counters and the lastGuessedRound of every player it keeps as they were.
C36_GuessIsRecordedOnce ==
  [][\A c \in Codes :
       rooms[c].phase # "none" /\ rooms'[c].phase # "none" =>
         IF rooms[c].phase = "guessing" /\ rooms'[c].phase = "reveal"
         THEN LET ps == rooms[c].players
                  g == rooms[c].round.guesserId
              IN  /\ Len(rooms'[c].players) = Len(ps)
                  /\ \A i \in 1..Len(ps) :
                       rooms'[c].players[i].lastGuessedRound =
                         IF ps[i].id = g THEN rooms[c].round.index
                         ELSE ps[i].lastGuessedRound
                  /\ \/ /\ rooms'[c].stats.wins = rooms[c].stats.wins + 1
                        /\ rooms'[c].stats.losses = rooms[c].stats.losses
                     \/ /\ rooms'[c].stats.wins = rooms[c].stats.wins
                        /\ rooms'[c].stats.losses = rooms[c].stats.losses + 1
         ELSE /\ rooms'[c].stats = rooms[c].stats
              /\ \A t \in Range(Ids(rooms'[c].players)) \cap Range(Ids(rooms[c].players)) :
                   GuessedBy(rooms'[c], t) = GuessedBy(rooms[c], t)]_vars
\* The second guess of a room has been accepted: the guesser holds the index
\* of this round and the guesser of the round before still holds that one.
C36_Witness ==
  \E c \in Codes :
    /\ Registered(c) /\ rooms[c].phase = "reveal" /\ HasRound(rooms[c])
    /\ rooms[c].stats.wins + rooms[c].stats.losses = 2
    /\ \E i, j \in 1..Len(rooms[c].players) :
         /\ rooms[c].players[i].id = rooms[c].round.guesserId
         /\ rooms[c].players[i].lastGuessedRound = rooms[c].round.index
         /\ rooms[c].players[j].lastGuessedRound = rooms[c].round.index - 1

\* C37: a room in answering leaves answering in the end, to guessing or to
\* the lobby or by being deleted, given that an armed deadline fires; no
\* answer is needed for it, and participants may disconnect or leave.
C37_AnsweringEnds ==
  \A c \in Codes :
    (Registered(c) /\ rooms[c].phase = "answering")
      ~> (~Registered(c) \/ rooms[c].phase # "answering")
\* The deadline has moved a round to guessing in which nobody has answered
\* and from which a participant has gone.
C37_Witness ==
  \E c \in Codes :
    /\ Registered(c) /\ rooms[c].phase = "guessing" /\ HasRound(rooms[c])
    /\ \A t \in DOMAIN rooms[c].round.answers : rooms[c].round.answers[t] = << >>
    /\ Len(rooms[c].players) < Len(rooms[c].round.participants)
    /\ out # << >> /\ out[1].type = "guesser:needed"

\* C38: with a fixed roster of N connected players and every round closed by
\* an accepted ordering, each of the last N rounds (all of them, while fewer
\* than N were played) had a guesser of its own, and the guesser of a round
\* in play has not guessed in the N - 1 rounds before it. lastGuessedRound
\* holds the last round each player guessed in, so a player who guessed twice
\* within N rounds would leave the earlier of the two without a guesser.
RoundsPlayed(room) ==
  IF room.phase \in {"answering", "guessing"}
  THEN room.roundCounter - 1 ELSE room.roundCounter
C38_GuesserRotates ==
  \A c \in Codes :
    Registered(c) =>
      LET room == rooms[c]
          n == Len(room.players)
          k == RoundsPlayed(room)
      IN  /\ \A j \in 0..(k - 1) :
               j >= k - n =>
                 Cardinality({i \in 1..n : room.players[i].lastGuessedRound = j}) = 1
          /\ room.phase \in {"answering", "guessing"} =>
               \A i \in 1..n :
                 room.players[i].id = room.round.guesserId =>
                   \/ room.players[i].lastGuessedRound = Undefined
                   \/ room.players[i].lastGuessedRound = k - n
\* A round after the first N has been closed: its guesser has guessed for the
\* second time, N rounds after the first.
C38_Witness ==
  \E c \in Codes :
    /\ Registered(c) /\ rooms[c].phase = "reveal" /\ HasRound(rooms[c])
    /\ rooms[c].round.index >= Len(rooms[c].players)
    /\ \E i \in 1..Len(rooms[c].players) :
         /\ rooms[c].players[i].id = rooms[c].round.guesserId
         /\ rooms[c].players[i].lastGuessedRound = rooms[c].round.index

\* C39: the ids of the players of one room are pairwise distinct, whatever
\* creates, joins and resumes were sent and with whatever tokens.
C39_RosterIdsDistinct ==
  \A c \in Codes :
    Registered(c) => Injective(Ids(rooms[c].players))

\* The number of entries of a list that are the id t
Occurrences(ids, t) == Cardinality({i \in 1..Len(ids) : ids[i] = t})
\* The roster has an entry with id t that the start of the round did not
\* take as a participant: a player who entered after it, or one who was
\* disconnected at the start
EnteredSinceStart(room, t) ==
  Occurrences(Ids(room.players), t) > Occurrences(room.round.participants, t)
\* C40: a step changes the answers of the round in progress only in
\* answering, and only the answer of the player its connection is bound to,
\* who is a participant and did not enter the room after the round started;
\* in guessing and reveal the answers of the round stay as they are.
C40_AnswersChangeByParticipantsOnly ==
  [][\A c \in Codes :
       /\ rooms[c].phase # "none" /\ rooms'[c].phase # "none"
       /\ HasRound(rooms[c]) /\ HasRound(rooms'[c])
       /\ rooms'[c].round.index = rooms[c].round.index
       /\ rooms'[c].round.answers # rooms[c].round.answers
       => /\ rooms[c].phase = "answering"
          /\ \E s \in Sockets :
               /\ sock[s].roomCode = c
               /\ sock[s].playerId \in Range(rooms[c].round.participants)
               /\ ~EnteredSinceStart(rooms[c], sock[s].playerId)
               /\ \A t \in DOMAIN rooms[c].round.answers :
                    t # sock[s].playerId =>
                      rooms'[c].round.answers[t] = rooms[c].round.answers[t]]_vars

====
